---- MODULE Spec2Model ----
(***************************************************************************)
(* Model of src/App.tsx: the appointment store (appointments state,       *)
(* localStorage key 'ent_appointments', addAppointment, markDone) and the *)
(* mock auth gate (authMode, showAuthModal, AuthModal.handleSubmit,       *)
(* handleLogout, Footer onStaffLogin, AuthModal onClose).                 *)
(*                                                                         *)
(* Every user event is one action: React runs an event handler to         *)
(* completion and re-renders before the next discrete event, and passive  *)
(* effects of a render are flushed before the next event is handled.      *)
(***************************************************************************)
EXTENDS Integers, Sequences, FiniteSets, TLC

(* ------------------------------ bounds -------------------------------- *)

\* total number of addAppointment calls explored in one behaviour
MaxAdds == 3
\* number of distinct values Math.random() yields in the model
NumIds == 2
\* the count of consecutive failed submissions saturates here
MaxFailed == 2

(* ------------------------------ inputs -------------------------------- *)

\* results of Math.random().toString(36).substr(2, 9):
\* 0.5 gives "0.i" hence "i"; 0 gives "0" hence ""; the others are typical
IdPool == <<"i", "", "4fzyo82mv", "k2j9x0q1z", "zzzzzzzzz">>

Ids == {IdPool[i] : i \in 1..NumIds}

\* the instants Date.now() returns: two submissions fall in the same
\* millisecond or in different ones
Times == {0, 1}

\* values of the two AuthModal inputs when handleSubmit runs; email starts
\* as '' and the handler tests it itself, the `required` attribute aside
Identifiers == {"", "admin", "jane"}

Secrets == {"123", "1234", "12345"}

\* the three <option>s of the booking form
Services == {"Audiology", "Sinus & Allergy", "Throat & Voice"}

\* formData of BookingSection at submit time: every input is `required`,
\* the select starts at 'Audiology'
Draft(name, service) ==
  [patientName |-> name, email |-> "jane@x.com", phone |-> "555",
   service |-> service, date |-> "2026-01-10"]

Drafts == {Draft("Jane Doe", "Audiology")}

NoDraft ==
  [patientName |-> "", email |-> "", phone |-> "", service |-> "", date |-> ""]

(* --------------------------- JSON round trip --------------------------- *)

\* one object of the array, as its members in property order: the spread
\* draft first, then id, status, createdAt; a number is written in decimal
stringifyApp(a) ==
  << <<"patientName", "string", a.patientName>>,
     <<"email", "string", a.email>>,
     <<"phone", "string", a.phone>>,
     <<"service", "string", a.service>>,
     <<"date", "string", a.date>>,
     <<"id", "string", a.id>>,
     <<"status", "string", a.status>>,
     <<"createdAt", "number", ToString(a.createdAt)>> >>

JSONstringify(apps) == [i \in 1..Len(apps) |-> stringifyApp(apps[i])]

parseNumber(s) == CHOOSE n \in Times : ToString(n) = s

Member(obj, key) == obj[CHOOSE i \in 1..Len(obj) : obj[i][1] = key]

MemberValue(obj, key) ==
  LET m == Member(obj, key)
  IN  IF m[2] = "number" THEN parseNumber(m[3]) ELSE m[3]

parseApp(obj) ==
  [id |-> MemberValue(obj, "id"),
   patientName |-> MemberValue(obj, "patientName"),
   email |-> MemberValue(obj, "email"),
   phone |-> MemberValue(obj, "phone"),
   service |-> MemberValue(obj, "service"),
   date |-> MemberValue(obj, "date"),
   status |-> MemberValue(obj, "status"),
   createdAt |-> MemberValue(obj, "createdAt")]

JSONparse(text) == [i \in 1..Len(text) |-> parseApp(text[i])]

\* localStorage.getItem gives null (present = FALSE) or the stored string
NoSnapshot == [present |-> FALSE, text |-> <<>>]

\* length in characters of the JSON text of an array: the two brackets and
\* at least one character per element
TextLength(text) == 2 + Len(text)

\* `if (saved)`: null and the empty string are falsy
Truthy(saved) == saved.present /\ TextLength(saved.text) > 0

(* ------------------------------- state --------------------------------- *)

VARIABLES
  authMode,        \* useState<AuthMode>('none')
  showAuthModal,   \* useState(true)
  appointments,    \* useState<Appointment[]>([])
  storage,         \* localStorage['ent_appointments']
  error,           \* AuthModal's error state ('' while the modal is unmounted)
  loaded,          \* the load effect of this page load has run
  now,             \* last value Date.now() returned
  added,           \* history: every record ever created, in creation order
  failed,          \* history: failed submissions in a row just now (saturating)
  last,            \* history: the most recent operation and the state before it
  lastStore        \* history: the most recent addAppointment / markDone

vars ==
  <<authMode, showAuthModal, appointments, storage, error, loaded, now,
    added, failed, last, lastStore>>

ErrorMessage == "Please enter valid credentials (min 4 chars password)"

\* the record of an operation: its name, its arguments, what it returned
\* and the state it started from
Op(name, email, password, id, draft, time, ret) ==
  [op |-> name, email |-> email, password |-> password, id |-> id,
   draft |-> draft, time |-> time, ret |-> ret,
   mode |-> authMode, modal |-> showAuthModal,
   apps |-> appointments, store |-> storage]

NoOp ==
  [op |-> "none", email |-> "", password |-> "", id |-> "",
   draft |-> NoDraft, time |-> 0, ret |-> "undefined",
   mode |-> "none", modal |-> TRUE, apps |-> <<>>, store |-> NoSnapshot]

Init ==
  /\ authMode = "none"
  /\ showAuthModal = TRUE
  /\ appointments = <<>>
  /\ storage = NoSnapshot
  /\ error = ""
  /\ loaded = FALSE
  /\ now = 0
  /\ added = <<>>
  /\ failed = 0
  /\ last = NoOp
  /\ lastStore = NoOp

(* ------------------------------ the store ------------------------------ *)

\* a load effect that never reads the stored snapshot
LoadEffect_noRead ==
  /\ ~loaded
  /\ loaded' = TRUE
  /\ UNCHANGED appointments
  /\ failed' = 0
  /\ last' = Op("load", "", "", "", NoDraft, now, "undefined")
  /\ UNCHANGED <<authMode, showAuthModal, storage, error, now, added,
                 lastStore>>

\* the useEffect(..., []) of App
LoadEffect ==
  /\ ~loaded
  /\ loaded' = TRUE
  /\ appointments' =
       IF Truthy(storage) THEN JSONparse(storage.text) ELSE appointments
  /\ failed' = 0
  /\ last' = Op("load", "", "", "", NoDraft, now, "undefined")
  /\ UNCHANGED <<authMode, showAuthModal, storage, error, now, added,
                 lastStore>>

\* the page is reloaded: every useState starts again from its initial value,
\* localStorage survives
Restart ==
  /\ loaded
  /\ authMode' = "none"
  /\ showAuthModal' = TRUE
  /\ appointments' = <<>>
  /\ error' = ""
  /\ loaded' = FALSE
  /\ failed' = 0
  /\ last' = Op("restart", "", "", "", NoDraft, now, "undefined")
  /\ UNCHANGED <<storage, now, added, lastStore>>

\* a save that serializes the state variable instead of its argument
saveAppointments_stale(newApps) ==
  /\ appointments' = newApps
  /\ storage' = [present |-> TRUE, text |-> JSONstringify(appointments)]

\* setAppointments(newApps); localStorage.setItem(key, JSON.stringify(newApps))
saveAppointments(newApps) ==
  /\ appointments' = newApps
  /\ storage' = [present |-> TRUE, text |-> JSONstringify(newApps)]

\* a record created already done
newApp_done(app, id, time) ==
  [id |-> id, patientName |-> app.patientName, email |-> app.email,
   phone |-> app.phone, service |-> app.service, date |-> app.date,
   status |-> "done", createdAt |-> time]

newApp(app, id, time) ==
  [id |-> id, patientName |-> app.patientName, email |-> app.email,
   phone |-> app.phone, service |-> app.service, date |-> app.date,
   status |-> "pending", createdAt |-> time]

\* a new record put in front of the others
addedList_prepend(apps, app) == <<app>> \o apps

\* [...appointments, newApp]
addedList(apps, app) == Append(apps, app)

\* <main>: the dashboard replaces the landing page while authMode === 'doctor'
dashboardRendered(mode) == mode = "doctor"

\* a booking section shown on every landing page
bookingRendered_everyLanding(mode) == ~dashboardRendered(mode)

\* <main>: the booking section is on the landing page while
\* authMode === 'patient'
bookingRendered(mode) == ~dashboardRendered(mode) /\ mode = "patient"

\* BookingSection.handleSubmit -> onBook(formData); the section is rendered
\* only while authMode === 'patient'
addAppointment(app, id, time) ==
  /\ loaded
  /\ bookingRendered(authMode)
  /\ Len(added) < MaxAdds
  /\ time >= now
  /\ saveAppointments(addedList(appointments, newApp(app, id, time)))
  /\ now' = time
  /\ added' = Append(added, newApp(app, id, time))
  /\ failed' = 0
  /\ last' = Op("addAppointment", "", "", id, app, time, "undefined")
  /\ lastStore' = last'
  /\ UNCHANGED <<authMode, showAuthModal, error, loaded>>

\* a filter with the test the other way round
filterOut_inverted(apps, id) == SelectSeq(apps, LAMBDA a : a.id = id)

\* a markDone that flags the record instead of dropping it
filterOut_flagDone(apps, id) ==
  [i \in 1..Len(apps) |->
     IF apps[i].id = id THEN [apps[i] EXCEPT !.status = "done"] ELSE apps[i]]

\* appointments.filter(app => app.id !== id)
filterOut(apps, id) == SelectSeq(apps, LAMBDA a : a.id # id)

\* DoctorDashboard's onMarkDone; the dashboard is rendered only while
\* authMode === 'doctor'.  The handler takes any string.
markDone(id) ==
  /\ loaded
  /\ dashboardRendered(authMode)
  /\ saveAppointments(filterOut(appointments, id))
  /\ failed' = 0
  /\ last' = Op("markDone", "", "", id, NoDraft, now, "undefined")
  /\ lastStore' = last'
  /\ UNCHANGED <<authMode, showAuthModal, error, loaded, now, added>>

\* DoctorDashboard: appointments.filter(a => a.status === 'pending').length
pendingCount(apps) == Len(SelectSeq(apps, LAMBDA a : a.status = "pending"))

(* ------------------------------ the gate ------------------------------- *)

\* the staff rule testing the identifier only
isDoctor_emailOnly(email, password) == email = "admin"

\* the decision of AuthModal.handleSubmit
isDoctor(email, password) == email = "admin" /\ password = "1234"

\* the patient rule without the test of the identifier
isPatient_noEmailCheck(email, password) == Len(password) >= 4

isPatient(email, password) == email # "" /\ Len(password) >= 4

\* the two rules tried in the other order
authenticate_patientFirst(email, password) ==
  IF isPatient(email, password) THEN "patient"
  ELSE IF isDoctor(email, password) THEN "doctor"
  ELSE "InvalidCredentials"

authenticate(email, password) ==
  IF isDoctor(email, password) THEN "doctor"
  ELSE IF isPatient(email, password) THEN "patient"
  ELSE "InvalidCredentials"

Saturate(n) == IF n < MaxFailed THEN n + 1 ELSE MaxFailed

\* AuthModal.handleSubmit with App's onAuth; the modal is mounted only
\* while showAuthModal
handleSubmit(email, password) ==
  /\ loaded
  /\ showAuthModal
  /\ LET r == authenticate(email, password)
     IN  IF r = "InvalidCredentials"
         THEN /\ error' = ErrorMessage
              /\ failed' = Saturate(failed)
              /\ UNCHANGED <<authMode, showAuthModal>>
         ELSE /\ authMode' = r
              /\ showAuthModal' = FALSE
              /\ error' = ""
              /\ failed' = 0
  /\ last' = Op("handleSubmit", email, password, "", NoDraft, now,
                authenticate(email, password))
  /\ UNCHANGED <<appointments, storage, loaded, now, added, lastStore>>

\* a logout that forgets to reopen the modal
handleLogout_modalStaysClosed ==
  /\ loaded
  /\ authMode # "none"
  /\ authMode' = "none"
  /\ UNCHANGED showAuthModal
  /\ error' = ""
  /\ failed' = 0
  /\ last' = Op("handleLogout", "", "", "", NoDraft, now, "undefined")
  /\ UNCHANGED <<appointments, storage, loaded, now, added,
                 lastStore>>

\* a logout that also empties the collection held in memory
handleLogout_clearsAppointments ==
  /\ loaded
  /\ authMode # "none"
  /\ authMode' = "none"
  /\ showAuthModal' = TRUE
  /\ appointments' = <<>>
  /\ error' = ""
  /\ failed' = 0
  /\ last' = Op("handleLogout", "", "", "", NoDraft, now, "undefined")
  /\ UNCHANGED <<storage, loaded, now, added, lastStore>>

\* the Logout buttons are rendered only while authMode !== 'none'
handleLogout ==
  /\ loaded
  /\ authMode # "none"
  /\ authMode' = "none"
  /\ showAuthModal' = TRUE
  /\ error' = ""
  /\ failed' = 0
  /\ last' = Op("handleLogout", "", "", "", NoDraft, now, "undefined")
  /\ UNCHANGED <<appointments, storage, loaded, now, added,
                 lastStore>>

\* a Staff Portal button that opens the modal and keeps the role
onStaffLogin_keepsRole ==
  /\ loaded
  /\ UNCHANGED authMode
  /\ showAuthModal' = TRUE
  /\ error' = IF showAuthModal THEN error ELSE ""
  /\ failed' = 0
  /\ last' = Op("onStaffLogin", "", "", "", NoDraft, now, "undefined")
  /\ UNCHANGED <<appointments, storage, loaded, now, added,
                 lastStore>>

\* Footer's "Staff Portal" button
onStaffLogin ==
  /\ loaded
  /\ authMode' = "none"
  /\ showAuthModal' = TRUE
  /\ error' = IF showAuthModal THEN error ELSE ""
  /\ failed' = 0
  /\ last' = Op("onStaffLogin", "", "", "", NoDraft, now, "undefined")
  /\ UNCHANGED <<appointments, storage, loaded, now, added,
                 lastStore>>

\* the X button of AuthModal
onClose ==
  /\ loaded
  /\ showAuthModal
  /\ showAuthModal' = FALSE
  /\ error' = ""
  /\ failed' = 0
  /\ last' = Op("onClose", "", "", "", NoDraft, now, "undefined")
  /\ UNCHANGED <<authMode, appointments, storage, loaded, now, added,
                 lastStore>>

Next ==
  \/ LoadEffect
  \/ Restart
  \/ \E app \in Drafts, id \in Ids, time \in Times :
       addAppointment(app, id, time)
  \/ \E id \in Ids : markDone(id)
  \/ \E email \in Identifiers, password \in Secrets :
       handleSubmit(email, password)
  \/ handleLogout
  \/ onStaffLogin
  \/ onClose

Spec == Init /\ [][Next]_vars

(* ------------------------ a write that is refused --------------------- *)

\* saveAppointments when localStorage.setItem throws (QuotaExceededError:
\* the quota is used up or storage is disabled for the site): the state
\* update of the line before is already queued and React applies it, the
\* exception leaves the event handler, the key keeps its old value
saveAppointmentsThrows(newApps) ==
  /\ appointments' = newApps
  /\ UNCHANGED storage

addAppointmentThrows(app, id, time) ==
  /\ loaded
  /\ bookingRendered(authMode)
  /\ Len(added) < MaxAdds
  /\ time >= now
  /\ saveAppointmentsThrows(addedList(appointments, newApp(app, id, time)))
  /\ now' = time
  /\ added' = Append(added, newApp(app, id, time))
  /\ failed' = 0
  /\ last' = Op("addAppointment", "", "", id, app, time,
                "QuotaExceededError")
  /\ lastStore' = last'
  /\ UNCHANGED <<authMode, showAuthModal, error, loaded>>

markDoneThrows(id) ==
  /\ loaded
  /\ dashboardRendered(authMode)
  /\ saveAppointmentsThrows(filterOut(appointments, id))
  /\ failed' = 0
  /\ last' = Op("markDone", "", "", id, NoDraft, now, "QuotaExceededError")
  /\ lastStore' = last'
  /\ UNCHANGED <<authMode, showAuthModal, error, loaded, now, added>>

NextQuota ==
  \/ Next
  \/ \E app \in Drafts, id \in Ids, time \in Times :
       addAppointmentThrows(app, id, time)
  \/ \E id \in Ids : markDoneThrows(id)

\* the program in a browser whose storage may refuse a write
SpecQuota == Init /\ [][NextQuota]_vars

(* ------------------------------ the claims ----------------------------- *)

HasId(apps, id) == \E i \in 1..Len(apps) : apps[i].id = id

\* the collection a page load reads from a stored value
SnapshotContent(saved) ==
  IF Truthy(saved) THEN JSONparse(saved.text) ELSE <<>>

RECURSIVE IsSubseq(_, _)
\* s is t with some elements left out, the others in the same order
IsSubseq(s, t) ==
  IF s = <<>> THEN TRUE
  ELSE IF t = <<>> THEN FALSE
  ELSE IF Head(s) = Head(t) THEN IsSubseq(Tail(s), Tail(t))
  ELSE IsSubseq(s, Tail(t))

Submitted == last.op = "handleSubmit"

AdminPair == last.email = "admin" /\ last.password = "1234"

\* C1: a submission with identifier "admin" and secret "1234" succeeds with
\* the staff role: authMode is 'doctor' (and the modal is closed), although
\* the pair satisfies the patient rule too.
C1_AdminPairIsStaff ==
  (Submitted /\ AdminPair) =>
    /\ authMode = "doctor"
    /\ ~showAuthModal
    /\ last.email # "" /\ Len(last.password) >= 4

C1_Witness == Submitted /\ AdminPair /\ authMode = "doctor"

\* C2: a submission with a non-empty identifier and a secret of length >= 4,
\* other than ("admin", "1234"), succeeds with the patient role.
C2_OtherValidPairIsPatient ==
  (Submitted /\ ~AdminPair /\ last.email # "" /\ Len(last.password) >= 4) =>
    /\ authMode = "patient"
    /\ ~showAuthModal

C2_Witness ==
  /\ Submitted
  /\ last.email = "admin"
  /\ last.password = "12345"
  /\ authMode = "patient"

\* C3: a submission with an empty identifier or a secret shorter than 4
\* fails: the error message is set, the role is what it was (anonymous), the
\* modal stays open, the collection and the stored snapshot are unchanged,
\* and a valid submission can follow, whatever the number of failures.
C3_InvalidPairFails ==
  (Submitted /\ (last.email = "" \/ Len(last.password) < 4)) =>
    /\ error = ErrorMessage
    /\ authMode = last.mode
    /\ authMode = "none"
    /\ showAuthModal
    /\ appointments = last.apps
    /\ storage = last.store
    /\ ENABLED handleSubmit("jane", "1234")
    /\ ENABLED handleSubmit("admin", "1234")

C3_Witness ==
  /\ Submitted
  /\ last.email = ""
  /\ failed = MaxFailed
  /\ error = ErrorMessage
  /\ showAuthModal

\* C4: logout sets the role to anonymous and opens the auth form, whatever
\* the role and the modal were.
C4_LogoutResets ==
  last.op = "handleLogout" => (authMode = "none" /\ showAuthModal)

C4_Witness ==
  /\ last.op = "handleLogout"
  /\ last.mode = "doctor"
  /\ ~last.modal
  /\ authMode = "none"
  /\ showAuthModal

C6_RemoveTakesOne ==
  (last.op = "markDone" /\ HasId(last.apps, last.id)) =>
    /\ Len(appointments) = Len(last.apps) - 1
    /\ ~HasId(appointments, last.id)
    /\ SnapshotContent(storage) = appointments

C8_InsertionOrder == IsSubseq(appointments, added)

C8_Witness ==
  /\ lastStore.op = "markDone"
  /\ Len(lastStore.apps) = 3
  /\ Len(appointments) = 2
  /\ appointments[1] # appointments[2]
  /\ last.op = "load"

\* C9: no two records of the collection have the same id.
C9_UniqueIds ==
  \A i, j \in 1..Len(appointments) :
    i # j => appointments[i].id # appointments[j].id

\* C10: add(draft) followed by remove of the id the new record got brings
\* the collection and the content of the snapshot back to what they were
\* before the add.
C10_AddThenRemoveRestores ==
  [][(/\ lastStore.op = "addAppointment"
      /\ lastStore'.op = "markDone"
      /\ lastStore'.id = lastStore.id)
     => (/\ appointments' = lastStore.apps
         /\ SnapshotContent(storage') = SnapshotContent(lastStore.store))]_vars

C12_ViewsFollowRole ==
  /\ last.op = "markDone" => last.mode = "doctor"
  /\ last.op = "addAppointment" => last.mode = "patient"
  /\ ~(dashboardRendered(authMode) /\ bookingRendered(authMode))
  /\ authMode = "none" =>
       /\ ~ENABLED (\E app \in Drafts, id \in Ids, time \in Times :
                      addAppointment(app, id, time))
       /\ ~ENABLED (\E id \in Ids : markDone(id))
  /\ authMode = "patient" => ~ENABLED (\E id \in Ids : markDone(id))
  /\ authMode = "doctor" =>
       ~ENABLED (\E app \in Drafts, id \in Ids, time \in Times :
                   addAppointment(app, id, time))

C12_Witness ==
  /\ last.op = "markDone"
  /\ last.mode = "doctor"
  /\ Len(last.apps) = 2
  /\ Len(added) = 2

\* C13: every record of the collection has status pending, so the pending
\* counter of the dashboard is the size of the collection.
C13_AllPending ==
  /\ \A i \in 1..Len(appointments) : appointments[i].status = "pending"
  /\ pendingCount(appointments) = Len(appointments)

C13_Witness ==
  /\ authMode = "doctor"
  /\ Len(appointments) = 2
  /\ pendingCount(appointments) = 2
  /\ lastStore.op = "markDone"

InSeq(x, s) == \E j \in 1..Len(s) : s[j] = x

SessionOps == {"handleSubmit", "handleLogout", "onStaffLogin", "onClose"}

\* C14: a record keeps the field values it was created with until it is
\* removed: every record in memory and in the snapshot is a record exactly
\* as addAppointment built it, an add leaves the earlier records as they
\* were, a remove leaves the remaining ones as they were, session actions
\* leave all of them, and a reload brings them back as stored.
C14_RecordsKeepTheirFields ==
  /\ \A i \in 1..Len(appointments) : InSeq(appointments[i], added)
  /\ \A i \in 1..Len(SnapshotContent(storage)) :
       InSeq(SnapshotContent(storage)[i], added)
  /\ last.op = "addAppointment" =>
       SubSeq(appointments, 1, Len(last.apps)) = last.apps
  /\ last.op = "markDone" =>
       \A i \in 1..Len(appointments) : InSeq(appointments[i], last.apps)
  /\ last.op \in SessionOps => appointments = last.apps
  /\ last.op = "load" => appointments = SnapshotContent(last.store)

C14_Witness ==
  /\ last.op = "load"
  /\ lastStore.op = "markDone"
  /\ Len(added) = 3
  /\ Len(appointments) = 1
  /\ appointments[1] = added[1]
  /\ appointments[1].createdAt = 0
  /\ now = 1

\* C16: while the auth form is open the role is anonymous, so a submission
\* always starts from the anonymous role, and no single step takes the role
\* from patient to staff or from staff to patient.
C16_ModalOpenMeansAnonymous ==
  /\ showAuthModal => authMode = "none"
  /\ last.op = "handleSubmit" => (last.mode = "none" /\ last.modal)
  /\ authMode # last.mode => (authMode = "none" \/ last.mode = "none")

C16_Witness ==
  /\ last.op = "onStaffLogin"
  /\ last.mode = "patient"
  /\ ~last.modal
  /\ showAuthModal
  /\ authMode = "none"

\* C17: a submission (successful or not), logout, the Staff Portal button
\* and closing the auth form leave the collection and the stored snapshot as
\* they were, so the record a patient added is in the collection, as
\* created, when staff has signed in afterwards.
C17_SessionLeavesStore ==
  /\ last.op \in SessionOps =>
       (appointments = last.apps /\ storage = last.store)
  /\ (last.op = "handleSubmit" /\ authMode = "doctor"
      /\ lastStore.op = "addAppointment") =>
       /\ appointments =
            Append(lastStore.apps,
                   newApp(lastStore.draft, lastStore.id, lastStore.time))
       /\ SnapshotContent(storage) = appointments

C17_Witness ==
  /\ last.op = "handleSubmit"
  /\ authMode = "doctor"
  /\ lastStore.op = "addAppointment"
  /\ lastStore.mode = "patient"
  /\ Len(appointments) = 2
  /\ appointments[2].id = lastStore.id

\* C15: add and remove have no partial failure: whenever one of them has
\* just run, the stored snapshot holds the records of the collection it left
\* in memory, and a call that changed the collection ran to its end.
C15_NoPartialFailure ==
  last.op \in {"addAppointment", "markDone"} =>
    /\ SnapshotContent(storage) = appointments
    /\ appointments # last.apps => last.ret = "undefined"


TypeOK ==
  /\ authMode \in {"none", "patient", "doctor"}
  /\ showAuthModal \in BOOLEAN
  /\ loaded \in BOOLEAN
  /\ now \in Times
  /\ Len(added) <= MaxAdds
  /\ failed \in 0..MaxFailed
  /\ \A i \in 1..Len(appointments) :
       /\ appointments[i].service \in Services
       /\ appointments[i].status \in {"pending", "done"}
       /\ appointments[i].createdAt \in Times
====
